---- MODULE Spec2Model ----
(***************************************************************************)
(* A model of modem.py: the AT-command exchanges with a cellular USB modem *)
(* over a serial session (probe, connect, DHCP query, hangup), the parsing *)
(* of the modem's DHCP status line, and the reconciliation of the host's   *)
(* interface address, default route and DNS entry.                         *)
(*                                                                         *)
(* Text (Python str and bytes) is a sequence of one-character strings.     *)
(* The logging under `verbose` is not modelled: the messages change no     *)
(* state, and every message that reads the local `s` is followed by a      *)
(* re.search that reads it too, so an unbound `s` raises with or without   *)
(* the message.                                                            *)
(***************************************************************************)
EXTENDS Integers, Sequences, FiniteSets, TLC

VARIABLES
    pc,          \* the statement of the main program that runs next
    args,        \* the parsed command line: [connect, disconnect]
    ser,         \* the global `ser`: [bound, isNone, id]
    sessions,    \* the serial sessions opened so far: id -> [open, timeout]
    io,          \* what happened on serial sessions, in order
    ok,          \* the global `ok`: "unbound", "True" or "False"
    dhcp,        \* the argument of the last call of DhcpParse
    status,      \* the global `status`: [bound, isNone, dict]
    iface,       \* the host's interface `dev`, as ifconfig reports it
    route,       \* the host's default route as `route | grep " dev$"` reports it
    resolv,      \* whether resolvconf holds the entry dev.modem, and its server
    calls,       \* the host commands issued, in order
    exc,         \* the exception that ended the process, or "none"
    exitStatus   \* the process's exit status, or -1 while it runs

vars == <<pc, args, ser, sessions, io, ok, dhcp, status, iface, route, resolv,
          calls, exc, exitStatus>>

----------------------------------------------------------------------------
(* Text *)

IsSpace(c) == c \in {" ", "\t", "\n", "\r", "\f"}

\* re.search(sub, s) is not None, for a pattern without metacharacters
Contains(s, sub) ==
    \E i \in 1..(Len(s) - Len(sub) + 1) : SubSeq(s, i, i + Len(sub) - 1) = sub

OkToken == <<"O", "K">>
ErrorToken == <<"E", "R", "R", "O", "R">>

\* A byte that is no UTF-8 text (0xFF): bytes.decode("utf-8") raises on it.
InvalidByte == "<FF>"

Decodable(b) == \A i \in 1..Len(b) : b[i] # InvalidByte

\* str.find(c): the first index of c in s, 0 when there is none
RECURSIVE FindFrom(_, _, _)
FindFrom(s, c, i) ==
    IF i > Len(s) THEN 0
    ELSE IF s[i] = c THEN i
    ELSE FindFrom(s, c, i + 1)

\* SplitFirst at the last sep instead of the first, as s.rsplit(sep, 1) splits
SplitLast(s, sep) ==
    LET hits == {i \in 1..Len(s) : s[i] = sep}
        i == CHOOSE h \in hits : \A g \in hits : g <= h
    IN  IF hits = {} THEN <<s>>
        ELSE <<SubSeq(s, 1, i - 1), SubSeq(s, i + 1, Len(s))>>

\* s.split(sep, 1)
SplitFirst(s, sep) ==
    LET i == FindFrom(s, sep, 1)
    IN  IF i = 0 THEN <<s>>
        ELSE <<SubSeq(s, 1, i - 1), SubSeq(s, i + 1, Len(s))>>

\* s.split(sep)
RECURSIVE SplitAll(_, _)
SplitAll(s, sep) ==
    LET i == FindFrom(s, sep, 1)
    IN  IF i = 0 THEN <<s>>
        ELSE <<SubSeq(s, 1, i - 1)>> \o SplitAll(SubSeq(s, i + 1, Len(s)), sep)

RECURSIVE LStrip(_)
LStrip(x) == IF x # <<>> /\ IsSpace(Head(x)) THEN LStrip(Tail(x)) ELSE x

RECURSIVE RStrip(_)
RStrip(x) ==
    IF x # <<>> /\ IsSpace(x[Len(x)]) THEN RStrip(SubSeq(x, 1, Len(x) - 1)) ELSE x

\* the length of the run of non-space characters s starts with
RECURSIVE WordLen(_)
WordLen(s) == IF s = <<>> \/ IsSpace(Head(s)) THEN 0 ELSE 1 + WordLen(Tail(s))

\* s.split(): the words of s between runs of white space
RECURSIVE SplitWs(_)
SplitWs(s) ==
    LET t == LStrip(s)
        n == WordLen(t)
    IN  IF t = <<>> THEN <<>>
        ELSE <<SubSeq(t, 1, n)>> \o SplitWs(SubSeq(t, n + 1, Len(t)))

----------------------------------------------------------------------------
(* Numbers.  int(x, base) may exceed 32 bits, so its value is kept as the *)
(* sequence of its digits' values, most significant first.                *)

DigitChars == <<"0", "1", "2", "3", "4", "5", "6", "7", "8", "9",
                "a", "b", "c", "d", "e", "f">>
DigitCharsUpper == <<"0", "1", "2", "3", "4", "5", "6", "7", "8", "9",
                     "A", "B", "C", "D", "E", "F">>

IsDigit(c, base) ==
    \E v \in 1..base : c = DigitChars[v] \/ c = DigitCharsUpper[v]

DigitVal(c) ==
    (CHOOSE v \in 1..16 : c = DigitChars[v] \/ c = DigitCharsUpper[v]) - 1

\* the digits of a literal, underscores dropped
RECURSIVE DigitVals(_)
DigitVals(b) ==
    IF b = <<>> THEN <<>>
    ELSE IF Head(b) = "_" THEN DigitVals(Tail(b))
    ELSE <<DigitVal(Head(b))>> \o DigitVals(Tail(b))

RECURSIVE DropZeros(_)
DropZeros(d) == IF d # <<>> /\ Head(d) = 0 THEN DropZeros(Tail(d)) ELSE d

\* digits separated by single underscores
WellGrouped(b, base) ==
    /\ b # <<>>
    /\ b[1] # "_"
    /\ b[Len(b)] # "_"
    /\ \A i \in 1..Len(b) :
          \/ IsDigit(b[i], base)
          \/ b[i] = "_" /\ i < Len(b) /\ b[i + 1] # "_"

\* int(x, base) for base 10 and 16: [ok, neg, digits]; ok = FALSE is ValueError.
\* White space around the literal is dropped, a sign may lead, base 16 takes
\* an optional 0x or 0X (which one underscore may follow).
PyInt(x, base) ==
    LET t == RStrip(LStrip(x))
        signed == t # <<>> /\ Head(t) \in {"+", "-"}
        u == IF signed THEN Tail(t) ELSE t
        prefixed == base = 16 /\ Len(u) >= 2 /\ u[1] = "0" /\ u[2] \in {"x", "X"}
        v == IF prefixed THEN SubSeq(u, 3, Len(u)) ELSE u
        w == IF prefixed /\ v # <<>> /\ Head(v) = "_" THEN Tail(v) ELSE v
    IN  IF WellGrouped(w, base)
        THEN [ok |-> TRUE, neg |-> signed /\ Head(t) = "-",
              digits |-> DropZeros(DigitVals(w))]
        ELSE [ok |-> FALSE, neg |-> FALSE, digits |-> <<>>]

RECURSIVE DigitsToNat(_, _)
DigitsToNat(d, base) ==
    IF d = <<>> THEN 0
    ELSE DigitsToNat(SubSeq(d, 1, Len(d) - 1), base) * base + d[Len(d)]

\* str(n) for a natural number
RECURSIVE DecStr(_)
DecStr(n) ==
    IF n < 10 THEN <<DigitChars[n + 1]>>
    ELSE DecStr(n \div 10) \o <<DigitChars[(n % 10) + 1]>>

\* bin(n).count('1')
RECURSIVE BitCount(_)
BitCount(n) == IF n = 0 THEN 0 ELSE (n % 2) + BitCount(n \div 2)

\* StructPackLE with the bytes most significant first, as ">L" packs them
StructPackBE(v) ==
    LET n == Len(v.digits)
        d == [i \in 1..8 |-> IF i <= 8 - n THEN 0 ELSE v.digits[i - (8 - n)]]
    IN  IF n > 8 \/ (v.neg /\ n > 0)
        THEN [ok |-> FALSE, bytes |-> <<>>]
        ELSE [ok |-> TRUE,
              bytes |-> <<d[1] * 16 + d[2], d[3] * 16 + d[4],
                          d[5] * 16 + d[6], d[7] * 16 + d[8]>>]

\* struct.pack("<L", v): the four bytes of v, least significant first;
\* ok = FALSE is struct.error (v negative or above 2^32 - 1).
StructPackLE(v) ==
    LET n == Len(v.digits)
        d == [i \in 1..8 |-> IF i <= 8 - n THEN 0 ELSE v.digits[i - (8 - n)]]
    IN  IF n > 8 \/ (v.neg /\ n > 0)
        THEN [ok |-> FALSE, bytes |-> <<>>]
        ELSE [ok |-> TRUE,
              bytes |-> <<d[7] * 16 + d[8], d[5] * 16 + d[6],
                          d[3] * 16 + d[4], d[1] * 16 + d[2]>>]

\* socket.inet_ntoa(b): the four bytes in order, in dotted decimal
InetNtoa(b) ==
    DecStr(b[1]) \o <<".">> \o DecStr(b[2]) \o <<".">> \o DecStr(b[3])
        \o <<".">> \o DecStr(b[4])

----------------------------------------------------------------------------
(* Results of the program's functions: a value returned or an exception *)

\* the dictionary DhcpParse builds; NoDict stands where there is none
NoDict ==
    [IpAddr |-> <<>>, Netmask |-> <<>>, Gateway |-> <<>>, DhcpServer |-> <<>>,
     DnsPrimary |-> <<>>, DnsSecondary |-> <<>>, RxMaxBps |-> <<>>,
     TxMaxBps |-> <<>>, NetmaskBits |-> 0]

ReturnNone == [exc |-> "none", isNone |-> TRUE, dict |-> NoDict]
ReturnDict(d) == [exc |-> "none", isNone |-> FALSE, dict |-> d]
RaiseFromParse(e) == [exc |-> e, isNone |-> TRUE, dict |-> NoDict]

ReturnBool(b) == [exc |-> "none", ret |-> b]
RaiseBool(e) == [exc |-> e, ret |-> FALSE]

----------------------------------------------------------------------------
(* DhcpParse *)

\* the number of leading one bits of an octet
RECURSIVE LeadingOnes(_, _)
LeadingOnes(n, width) ==
    IF width = 0 \/ n < 2 ^ (width - 1) THEN 0
    ELSE 1 + LeadingOnes(n - 2 ^ (width - 1), width - 1)

\* NetmaskBitsOf as the length of the leading run of one bits
NetmaskPrefixLength(netmask) ==
    LET parts == SplitAll(netmask, ".")
        ones == [i \in 1..Len(parts) |->
                    LeadingOnes(DigitsToNat(PyInt(parts[i], 10).digits, 10), 8)]
        run[i \in 0..Len(parts)] ==
            IF i = 0 THEN 0
            ELSE IF run[i - 1] = 8 * (i - 1) THEN run[i - 1] + ones[i]
            ELSE run[i - 1]
    IN  run[Len(parts)]

\* sum([bin(int(x)).count('1') for x in netmask.split('.')])
NetmaskBitsOf(netmask) ==
    LET parts == SplitAll(netmask, ".")
        bits == [i \in 1..Len(parts) |->
                    BitCount(DigitsToNat(PyInt(parts[i], 10).digits, 10))]
        sumTo[i \in 0..Len(parts)] == IF i = 0 THEN 0 ELSE sumTo[i - 1] + bits[i]
    IN  sumTo[Len(parts)]

\* the dictionary built from the decoded addresses and the field list
LeaseDict(ips, field_array, txMaxBps) ==
    [IpAddr       |-> ips[1],
     Netmask      |-> ips[2],
     Gateway      |-> ips[3],
     DhcpServer   |-> ips[4],
     DnsPrimary   |-> ips[5],
     DnsSecondary |-> ips[6],
     RxMaxBps     |-> field_array[7],
     TxMaxBps     |-> txMaxBps[1],
     NetmaskBits  |-> NetmaskBitsOf(ips[2])]

\* whether the text has enough fields for the parser to go on
EnoughFields(field_array) == Len(field_array) >= 8

DhcpParse(text) ==
    LET fields == SplitFirst(text, ":")
    IN  IF Len(fields) # 2 THEN ReturnNone
        ELSE
        LET field_array == SplitAll(fields[2], ",")
        IN  IF ~EnoughFields(field_array) THEN ReturnNone
            ELSE
            LET ints  == [i \in 1..6 |-> PyInt(field_array[i], 16)]
                packs == [i \in 1..6 |-> StructPackLE(ints[i])]
                bad   == {i \in 1..6 : ~ints[i].ok \/ ~packs[i].ok}
                first == CHOOSE i \in bad : \A j \in bad : i <= j
                ips   == [i \in 1..6 |-> InetNtoa(packs[i].bytes)]
                txMaxBps == SplitWs(field_array[8])
            IN  IF bad # {}
                THEN IF ~ints[first].ok THEN RaiseFromParse("ValueError")
                     ELSE RaiseFromParse("struct.error")
                ELSE IF txMaxBps = <<>> THEN RaiseFromParse("IndexError")
                ELSE ReturnDict(LeaseDict(ips, field_array, txMaxBps))

----------------------------------------------------------------------------
(* Configuration and the AT commands *)

Dev == <<"w", "w", "a", "n", "0">>
Carrier == <<"h", "2", "g", "2">>

OpenTimeout == 2
HangupTimeout == 20
ModemOkRead == 10
ModemHangupRead == 20
ModemHangupDelayedRead == 10
ModemConnectRead == 30
ModemDhcpStatusRead == 100

AtProbe == <<"A", "T", "\r">>
AtConnect ==
    <<"A", "T", "^", "N", "D", "I", "S", "D", "U", "P", "=", "1", ",", "1",
      ",", "\"">> \o Carrier \o <<"\"", "\r">>
AtHangup ==
    <<"A", "T", "^", "N", "D", "I", "S", "D", "U", "P", "=", "1", ",", "0", "\r">>
AtDhcp == <<"A", "T", "^", "D", "H", "C", "P", "?", "\r">>

----------------------------------------------------------------------------
(* The functions of the session protocol, from what their reads return *)

\* `if s2: s = s2.decode("utf-8")` and the first use of `s`: the exception
\* raised, or "none" when `s` is bound to the decoded text
BindS(s2) ==
    IF s2 = <<>> THEN "UnboundLocalError"
    ELSE IF ~Decodable(s2) THEN "UnicodeDecodeError"
    ELSE "none"

ModemOk(s2) ==
    IF BindS(s2) # "none" THEN RaiseBool(BindS(s2))
    ELSE ReturnBool(Contains(s2, OkToken))

ModemConnect(s2) ==
    IF BindS(s2) # "none" THEN RaiseBool(BindS(s2))
    ELSE ReturnBool(Contains(s2, OkToken))

\* HangupPending without the test for ERROR
HangupPendingIgnoringError(s) == ~Contains(s, OkToken)

\* whether ModemHangup goes on to its delayed read after the first one
HangupPending(s) == ~Contains(s, OkToken) /\ ~Contains(s, ErrorToken)

\* `s` after the delayed read: the new text, or the first one when it is empty
HangupDelayedText(s, s2) == IF s2 # <<>> THEN s2 ELSE s

\* ModemHangup without line 197: the extended timeout stays after the delayed read
ModemHangupKeepingTimeout(t, first, second) ==
    IF BindS(first) # "none"
    THEN [exc |-> BindS(first), ret |-> FALSE, reads |-> 1, timeout |-> t]
    ELSE IF ~HangupPending(first)
    THEN [exc |-> "none", ret |-> Contains(first, OkToken), reads |-> 1,
          timeout |-> t]
    ELSE IF second # <<>> /\ ~Decodable(second)
    THEN [exc |-> "UnicodeDecodeError", ret |-> FALSE, reads |-> 2,
          timeout |-> HangupTimeout]
    ELSE [exc |-> "none",
          ret |-> Contains(HangupDelayedText(first, second), OkToken),
          reads |-> 2, timeout |-> HangupTimeout]

\* ModemHangup on a session whose timeout is t, from its first read and from
\* its delayed read (used when there is one): [exc, ret, reads, timeout]
ModemHangup(t, first, second) ==
    IF BindS(first) # "none"
    THEN [exc |-> BindS(first), ret |-> FALSE, reads |-> 1, timeout |-> t]
    ELSE IF ~HangupPending(first)
    THEN [exc |-> "none", ret |-> Contains(first, OkToken), reads |-> 1,
          timeout |-> t]
    ELSE IF second # <<>> /\ ~Decodable(second)
    THEN [exc |-> "UnicodeDecodeError", ret |-> FALSE, reads |-> 2,
          timeout |-> HangupTimeout]
    ELSE [exc |-> "none",
          ret |-> Contains(HangupDelayedText(first, second), OkToken),
          reads |-> 2, timeout |-> t]

ModemDhcpStatus(s2) ==
    IF BindS(s2) # "none" THEN RaiseFromParse(BindS(s2))
    ELSE IF ~Contains(s2, OkToken) THEN ReturnNone
    ELSE DhcpParse(s2)

\* whether ModemDhcpStatus hands its text to DhcpParse
CallsDhcpParse(s2) == BindS(s2) = "none" /\ Contains(s2, OkToken)

----------------------------------------------------------------------------
(* The host: what the program's queries report and what its commands do *)

NoneText == [isNone |-> TRUE, text |-> <<>>]
SomeText(x) == [isNone |-> FALSE, text |-> x]

Call(name, a) == [kind |-> "call", name |-> name, args |-> a]
Cmd(name, a) == [kind |-> "cmd", name |-> name, args |-> a]

\* GetInterface(dev) is not None: ifconfig dev succeeded
GetInterface(ifc) == ifc.present

\* GetIpAddr and GetIpMask: the text after "inet " and "netmask ", or None
GetIpAddr(ifc) == ifc.addr
GetIpMask(ifc) == ifc.netmask

\* re.match(r'([0-9.]*)', x).group(1): the longest leading run of digits and dots
RECURSIVE NumericPrefix(_)
NumericPrefix(x) ==
    IF x # <<>> /\ (IsDigit(Head(x), 10) \/ Head(x) = ".")
    THEN <<Head(x)>> \o NumericPrefix(Tail(x))
    ELSE <<>>

\* GetGatewayInfo(dev): [isNone, IpAddr, Device] from the line of `route`
\* that starts with "default" and ends with " dev"
GetGatewayInfo(rt) ==
    IF rt.present
    THEN [isNone |-> FALSE, IpAddr |-> NumericPrefix(rt.gw), Device |-> Dev]
    ELSE [isNone |-> TRUE, IpAddr |-> <<>>, Device |-> <<>>]

FlushCmd == Cmd("/sbin/ip addr flush dev", <<Dev>>)
AddressAddCmd(d) ==
    Cmd("/sbin/ip address add", <<d.IpAddr \o <<"/">> \o DecStr(d.NetmaskBits), Dev>>)
RouteDeleteCmd(gateway, device) ==
    Cmd("/sbin/route delete default gw", <<gateway, device>>)
RouteAddCmd(gateway) == Cmd("/sbin/ip route add default via", <<gateway>>)
ResolvconfAddCmd(dns) ==
    Cmd("/sbin/resolvconf -a",
        <<Dev \o <<".", "m", "o", "d", "e", "m">>,
          <<"n", "a", "m", "e", "s", "e", "r", "v", "e", "r", " ">> \o dns>>)
ResolvconfDeleteCmd ==
    Cmd("/sbin/resolvconf -d", <<Dev \o <<".", "m", "o", "d", "e", "m">>>>)

\* the commands EraseInterfaceIpAddress issues
EraseInterfaceIpAddress(ifc) ==
    IF GetInterface(ifc) THEN <<FlushCmd>> ELSE <<>>

\* AddressDiffers without the comparison of the netmasks
AddressDiffersIgnoringNetmask(ifc, d) == GetIpAddr(ifc) # SomeText(d.IpAddr)

\* whether the interface's address or netmask differs from the lease's
AddressDiffers(ifc, d) ==
    \/ GetIpAddr(ifc) # SomeText(d.IpAddr)
    \/ GetIpMask(ifc) # SomeText(d.Netmask)

\* the commands UpdateInterfaceIpAddress issues
UpdateInterfaceIpAddress(ifc, dhcpStatus) ==
    IF dhcpStatus.isNone THEN <<>>
    ELSE IF ~GetInterface(ifc) THEN <<>>
    ELSE IF AddressDiffers(ifc, dhcpStatus.dict)
    THEN <<FlushCmd, AddressAddCmd(dhcpStatus.dict)>>
    ELSE <<>>

\* the command RemoveGateway issues
RemoveGateway(gateway, device) == <<RouteDeleteCmd(gateway, device)>>

\* SetGateway without the early return of lines 425-428
SetGatewayAlways(rt, gateway) ==
    LET currentGateway == GetGatewayInfo(rt)
    IN  IF ~currentGateway.isNone
        THEN RemoveGateway(currentGateway.IpAddr, currentGateway.Device)
                \o <<RouteAddCmd(gateway)>>
        ELSE <<RouteAddCmd(gateway)>>

\* the commands SetGateway issues
SetGateway(rt, gateway) ==
    LET currentGateway == GetGatewayInfo(rt)
    IN  IF ~currentGateway.isNone /\ currentGateway.IpAddr = gateway THEN <<>>
        ELSE IF ~currentGateway.isNone
        THEN RemoveGateway(currentGateway.IpAddr, currentGateway.Device)
                \o <<RouteAddCmd(gateway)>>
        ELSE <<RouteAddCmd(gateway)>>

\* the command AddDns issues
AddDns(dns) == <<ResolvconfAddCmd(dns)>>

\* the command RmDns issues
RmDns == <<ResolvconfDeleteCmd>>

\* lines 528-530 of the main program: the commands issued for the gateway
MainRemoveGatewayCmds(rt) ==
    LET currentGateway == GetGatewayInfo(rt)
    IN  IF ~currentGateway.isNone THEN RemoveGateway(currentGateway.IpAddr, Dev)
        ELSE <<>>

\* the netmask of a prefix of `bits` bits, in dotted decimal
PrefixMask(bits) ==
    LET n(k) == IF bits - 8 * (k - 1) < 0 THEN 0
                ELSE IF bits - 8 * (k - 1) > 8 THEN 8
                ELSE bits - 8 * (k - 1)
    IN  InetNtoa([k \in 1..4 |-> 256 - 2 ^ (8 - n(k))])

\* The host after one command.  Flushing the interface's addresses may take
\* the routes through it along (dropsRoute); deleting a route needs its
\* gateway; adding a default route fails where there is one.
ApplyCmd(h, c, dropsRoute) ==
    IF c.name = "/sbin/ip addr flush dev"
    THEN [h EXCEPT !.iface = [present |-> TRUE, addr |-> NoneText, netmask |-> NoneText],
                   !.route = IF dropsRoute THEN [present |-> FALSE, gw |-> <<>>] ELSE @]
    ELSE IF c.name = "/sbin/ip address add"
    THEN LET a == SplitFirst(c.args[1], "/")
         IN  [h EXCEPT !.iface =
                 [present |-> TRUE, addr |-> SomeText(a[1]),
                  netmask |-> SomeText(PrefixMask(DigitsToNat(PyInt(a[2], 10).digits, 10)))]]
    ELSE IF c.name = "/sbin/route delete default gw"
    THEN IF h.route.present /\ c.args[1] # <<>> /\ h.route.gw = c.args[1]
         THEN [h EXCEPT !.route = [present |-> FALSE, gw |-> <<>>]]
         ELSE h
    ELSE IF c.name = "/sbin/ip route add default via"
    THEN IF h.route.present THEN h
         ELSE [h EXCEPT !.route = [present |-> TRUE, gw |-> c.args[1]]]
    ELSE IF c.name = "/sbin/resolvconf -a"
    THEN [h EXCEPT !.resolv = [present |-> TRUE, dns |-> c.args[2]]]
    ELSE [h EXCEPT !.resolv = [present |-> FALSE, dns |-> <<>>]]

RECURSIVE ApplyCmds(_, _, _)
ApplyCmds(h, cmds, dropsRoute) ==
    IF cmds = <<>> THEN h
    ELSE ApplyCmds(ApplyCmd(h, Head(cmds), dropsRoute), Tail(cmds), dropsRoute)

----------------------------------------------------------------------------
(* What the modem may answer and how the host may stand at the start *)

RECURSIVE Join(_, _)
Join(fields, sep) ==
    IF Len(fields) = 0 THEN <<>>
    ELSE IF Len(fields) = 1 THEN fields[1]
    ELSE fields[1] \o <<sep>> \o Join(Tail(fields), sep)

CrLf == <<"\r", "\n">>
DhcpLabel == <<"^", "D", "H", "C", "P">>

HexAddr == <<"0", "1", "0", "0", "0", "0", "0", "A">>      \* 10.0.0.1
HexMask == <<"0", "0", "F", "F", "F", "F", "F", "F">>      \* 255.255.255.0
HexGateway == <<"0", "2", "0", "0", "0", "0", "0", "A">>   \* 10.0.0.2
HexDns1 == <<"0", "8", "0", "8", "0", "8", "0", "8">>      \* 8.8.8.8
HexDns2 == <<"0", "4", "0", "4", "0", "4", "0", "8">>      \* 8.4.4.4
HexBad == <<"0", "1", "0", "0", "0", "0", "0", "G">>
Rate == <<"1", "0", "0", "0">>

LeaseFields == <<HexAddr, HexMask, HexGateway, HexGateway, HexDns1, HexDns2, Rate, Rate>>

\* the modem's answer to AT^DHCP? that carries the field list `fields`
DhcpReply(fields) ==
    CrLf \o DhcpLabel \o <<":">> \o Join(fields, ",") \o CrLf \o CrLf \o OkToken \o CrLf

ShortReplies ==
    { <<>>,
      CrLf \o OkToken \o CrLf,
      CrLf \o ErrorToken \o CrLf,
      CrLf,
      ErrorToken \o CrLf \o OkToken,
      <<InvalidByte>> }

DhcpReplies ==
    { DhcpReply(LeaseFields),
      DhcpReply([LeaseFields EXCEPT ![1] = HexBad]),
      DhcpReply(SubSeq(LeaseFields, 1, 7)) }

Replies == ShortReplies \cup DhcpReplies

\* ser.read(size): the bytes that arrived before the timeout, at most `size`
ReadOutcomes(size) == {r \in Replies : Len(r) <= size}

LeaseAddr == <<"1", "0", ".", "0", ".", "0", ".", "1">>
LeaseMask == <<"2", "5", "5", ".", "2", "5", "5", ".", "2", "5", "5", ".", "0">>
LeaseGateway == <<"1", "0", ".", "0", ".", "0", ".", "2">>
OtherAddr == <<"1", "9", "2", ".", "1", "6", "8", ".", "8", ".", "1", "0", "0">>
OtherGateway == <<"1", "9", "2", ".", "1", "6", "8", ".", "8", ".", "1">>
NamedGateway == <<"_", "g", "a", "t", "e", "w", "a", "y">>
OtherMask == <<"2", "5", "5", ".", "2", "5", "5", ".", "0", ".", "0">>

InitIfaces ==
    { [present |-> FALSE, addr |-> NoneText, netmask |-> NoneText],
      [present |-> TRUE, addr |-> NoneText, netmask |-> NoneText],
      [present |-> TRUE, addr |-> SomeText(LeaseAddr), netmask |-> SomeText(LeaseMask)],
      [present |-> TRUE, addr |-> SomeText(OtherAddr), netmask |-> SomeText(LeaseMask)],
      [present |-> TRUE, addr |-> SomeText(LeaseAddr), netmask |-> SomeText(OtherMask)] }

InitRoutes ==
    { [present |-> FALSE, gw |-> <<>>],
      [present |-> TRUE, gw |-> LeaseGateway],
      [present |-> TRUE, gw |-> OtherGateway],
      [present |-> TRUE, gw |-> NamedGateway] }

----------------------------------------------------------------------------
(* The main program *)

Unbound == [bound |-> FALSE, isNone |-> TRUE, id |-> 0]
NoneSer == [bound |-> TRUE, isNone |-> TRUE, id |-> 0]
Session(i) == [bound |-> TRUE, isNone |-> FALSE, id |-> i]

WriteEvent(i, data) ==
    [op |-> "write", id |-> i, data |-> data, size |-> 0, timeout |-> 0]
ReadEvent(i, size, timeout, data) ==
    [op |-> "read", id |-> i, data |-> data, size |-> size, timeout |-> timeout]

BoolStr(b) == IF b THEN "True" ELSE "False"

\* where the program goes on after the connect branch (lines 524, 533)
AfterConnect == IF args.disconnect THEN "OpenModemD" ELSE "exit"

\* where the program starts (lines 511, 524, 533)
Entry(a) ==
    IF a.connect THEN "OpenModemC"
    ELSE IF a.disconnect THEN "OpenModemD"
    ELSE "print_help"

\* where the connect branch goes after ModemDhcpStatus (line 519)
AfterDhcpStatus(st) == IF ~st.isNone THEN "UpdateInterfaceIpAddress" ELSE AfterConnect

\* where the connect branch goes after ModemConnect (lines 517-518)
AfterModemConnect(connected) == "ModemDhcpStatus"

\* where the connect branch goes after ModemOk (lines 516-517)
AfterModemOk(alive) == "ModemConnect"

Init ==
    /\ args \in [connect : BOOLEAN, disconnect : BOOLEAN]
    /\ pc = Entry(args)
    /\ ser = Unbound
    /\ sessions = <<>>
    /\ io = <<>>
    /\ ok = "unbound"
    /\ dhcp = <<>>
    /\ status = [bound |-> FALSE, isNone |-> TRUE, dict |-> NoDict]
    /\ iface \in InitIfaces
    /\ route \in InitRoutes
    /\ resolv = [present |-> FALSE, dns |-> <<>>]
    /\ calls = <<>>
    /\ exc = "none"
    /\ exitStatus = -1

\* an exception nobody catches ends the process with status 1
Raise(e) ==
    /\ pc' = "raised"
    /\ exc' = e
    /\ exitStatus' = 1

\* the host after the commands `cmds`, and the log of what was issued
Issue(logged, cmds, dropsRoute) ==
    LET h == ApplyCmds([iface |-> iface, route |-> route, resolv |-> resolv],
                       cmds, dropsRoute)
    IN  /\ iface' = h.iface
        /\ route' = h.route
        /\ resolv' = h.resolv
        /\ calls' = calls \o logged \o cmds

\* OpenModem(dev_at): a new session with the 2 s timeout, or None
OpenModem(opened) ==
    /\ sessions' = IF opened
                   THEN Append(sessions, [open |-> TRUE, timeout |-> OpenTimeout])
                   ELSE sessions
    /\ ser' = IF opened THEN Session(Len(sessions) + 1) ELSE NoneSer

\* lines 514-515
MainOpenModemC ==
    /\ pc = "OpenModemC"
    /\ \E opened \in BOOLEAN :
          /\ OpenModem(opened)
          /\ pc' = IF opened THEN "ModemOk" ELSE AfterConnect
    /\ UNCHANGED <<args, io, ok, dhcp, status, iface, route, resolv, calls, exc,
                   exitStatus>>

\* line 516
MainModemOk ==
    /\ pc = "ModemOk"
    /\ \E s2 \in ReadOutcomes(ModemOkRead) :
          LET r == ModemOk(s2)
          IN  /\ io' = io \o <<WriteEvent(ser.id, AtProbe),
                               ReadEvent(ser.id, ModemOkRead,
                                         sessions[ser.id].timeout, s2)>>
              /\ IF r.exc # "none"
                 THEN Raise(r.exc) /\ UNCHANGED ok
                 ELSE /\ ok' = BoolStr(r.ret)
                      /\ pc' = AfterModemOk(r.ret)
                      /\ UNCHANGED <<exc, exitStatus>>
    /\ UNCHANGED <<args, ser, sessions, dhcp, status, iface, route, resolv, calls>>

\* line 517
MainModemConnect ==
    /\ pc = "ModemConnect"
    /\ \E s2 \in ReadOutcomes(ModemConnectRead) :
          LET r == ModemConnect(s2)
          IN  /\ io' = io \o <<WriteEvent(ser.id, AtConnect),
                               ReadEvent(ser.id, ModemConnectRead,
                                         sessions[ser.id].timeout, s2)>>
              /\ IF r.exc # "none"
                 THEN Raise(r.exc) /\ UNCHANGED ok
                 ELSE /\ ok' = BoolStr(r.ret)
                      /\ pc' = AfterModemConnect(r.ret)
                      /\ UNCHANGED <<exc, exitStatus>>
    /\ UNCHANGED <<args, ser, sessions, dhcp, status, iface, route, resolv, calls>>

\* lines 518-519
MainModemDhcpStatus ==
    /\ pc = "ModemDhcpStatus"
    /\ \E s2 \in ReadOutcomes(ModemDhcpStatusRead) :
          LET r == ModemDhcpStatus(s2)
          IN  /\ io' = io \o <<WriteEvent(ser.id, AtDhcp),
                               ReadEvent(ser.id, ModemDhcpStatusRead,
                                         sessions[ser.id].timeout, s2)>>
              /\ dhcp' = IF CallsDhcpParse(s2) THEN s2 ELSE dhcp
              /\ IF r.exc # "none"
                 THEN Raise(r.exc) /\ UNCHANGED status
                 ELSE /\ status' = [bound |-> TRUE, isNone |-> r.isNone,
                                    dict |-> r.dict]
                      /\ pc' = AfterDhcpStatus(r)
                      /\ UNCHANGED <<exc, exitStatus>>
    /\ UNCHANGED <<args, ser, sessions, ok, iface, route, resolv, calls>>

\* line 520
MainUpdateInterfaceIpAddress ==
    /\ pc = "UpdateInterfaceIpAddress"
    /\ \E dropsRoute \in BOOLEAN :
          Issue(<<Call("UpdateInterfaceIpAddress", <<Dev>>)>>,
                UpdateInterfaceIpAddress(iface, status), dropsRoute)
    /\ pc' = "SetGateway"
    /\ UNCHANGED <<args, ser, sessions, io, ok, dhcp, status, exc, exitStatus>>

\* line 521
MainSetGateway ==
    /\ pc = "SetGateway"
    /\ Issue(<<Call("SetGateway", <<status.dict.Gateway, Dev>>)>>,
             SetGateway(route, status.dict.Gateway), FALSE)
    /\ pc' = "AddDns"
    /\ UNCHANGED <<args, ser, sessions, io, ok, dhcp, status, exc, exitStatus>>

\* line 522
MainAddDns ==
    /\ pc = "AddDns"
    /\ Issue(<<Call("AddDns", <<status.dict.DnsPrimary, Dev>>)>>,
             AddDns(status.dict.DnsPrimary), FALSE)
    /\ pc' = AfterConnect
    /\ UNCHANGED <<args, ser, sessions, io, ok, dhcp, status, exc, exitStatus>>

\* Rebinding `ser` drops the last reference to the session it held; the
\* object's finalizer closes it where the runtime runs finalizers at once.
Rebind(ss, old, finalized) ==
    IF old.bound /\ ~old.isNone /\ finalized
    THEN [ss EXCEPT ![old.id].open = FALSE]
    ELSE ss

\* line 525
MainOpenModemD ==
    /\ pc = "OpenModemD"
    /\ \E opened \in BOOLEAN, finalized \in BOOLEAN :
          /\ sessions' =
                Rebind(IF opened
                       THEN Append(sessions, [open |-> TRUE, timeout |-> OpenTimeout])
                       ELSE sessions,
                       ser, finalized)
          /\ ser' = IF opened THEN Session(Len(sessions) + 1) ELSE NoneSer
    /\ pc' = "ModemHangup"
    /\ UNCHANGED <<args, io, ok, dhcp, status, iface, route, resolv, calls, exc,
                   exitStatus>>

\* HangupEvents with the command written again before the delayed read
HangupEventsResending(i, t, first, second, reads) ==
    <<WriteEvent(i, AtHangup), ReadEvent(i, ModemHangupRead, t, first)>>
        \o (IF reads = 2
            THEN <<WriteEvent(i, AtHangup),
                   ReadEvent(i, ModemHangupDelayedRead, HangupTimeout, second)>>
            ELSE <<>>)

\* the serial events of ModemHangup on session i with timeout t
HangupEvents(i, t, first, second, reads) ==
    <<WriteEvent(i, AtHangup), ReadEvent(i, ModemHangupRead, t, first)>>
        \o (IF reads = 2
            THEN <<ReadEvent(i, ModemHangupDelayedRead, HangupTimeout, second)>>
            ELSE <<>>)

\* line 526
MainModemHangup ==
    /\ pc = "ModemHangup"
    /\ IF ser.isNone
       THEN /\ Raise("AttributeError")
            /\ UNCHANGED <<io, ok, sessions>>
       ELSE \E first \in ReadOutcomes(ModemHangupRead),
               second \in ReadOutcomes(ModemHangupDelayedRead) :
               LET t == sessions[ser.id].timeout
                   r == ModemHangup(t, first, second)
               IN  /\ io' = io \o HangupEvents(ser.id, t, first, second, r.reads)
                   /\ sessions' = [sessions EXCEPT ![ser.id].timeout = r.timeout]
                   /\ IF r.exc # "none"
                      THEN Raise(r.exc) /\ UNCHANGED ok
                      ELSE /\ ok' = BoolStr(r.ret)
                           /\ pc' = "EraseInterfaceIpAddress"
                           /\ UNCHANGED <<exc, exitStatus>>
    /\ UNCHANGED <<args, ser, dhcp, status, iface, route, resolv, calls>>

\* line 527
MainEraseInterfaceIpAddress ==
    /\ pc = "EraseInterfaceIpAddress"
    /\ \E dropsRoute \in BOOLEAN :
          Issue(<<Call("EraseInterfaceIpAddress", <<Dev>>)>>,
                EraseInterfaceIpAddress(iface), dropsRoute)
    /\ pc' = "RemoveGateway"
    /\ UNCHANGED <<args, ser, sessions, io, ok, dhcp, status, exc, exitStatus>>

\* lines 528-530
MainRemoveGateway ==
    /\ pc = "RemoveGateway"
    /\ Issue(<<Call("GetGatewayInfo", <<Dev>>)>>, MainRemoveGatewayCmds(route), FALSE)
    /\ pc' = "RmDns"
    /\ UNCHANGED <<args, ser, sessions, io, ok, dhcp, status, exc, exitStatus>>

\* line 531
MainRmDns ==
    /\ pc = "RmDns"
    /\ Issue(<<Call("RmDns", <<Dev>>)>>, RmDns, FALSE)
    /\ pc' = "exit"
    /\ UNCHANGED <<args, ser, sessions, io, ok, dhcp, status, exc, exitStatus>>

\* lines 533-534
MainPrintHelp ==
    /\ pc = "print_help"
    /\ pc' = "exit"
    /\ UNCHANGED <<args, ser, sessions, io, ok, dhcp, status, iface, route, resolv,
                   calls, exc, exitStatus>>

\* line 536: exit(0).  The program closes no session itself; those still open
\* are left to the teardown of the interpreter and of the system.
MainExit ==
    /\ pc = "exit"
    /\ pc' = "exited"
    /\ exitStatus' = 0
    /\ UNCHANGED <<args, ser, sessions, io, ok, dhcp, status, iface, route, resolv,
                   calls, exc>>

Next ==
    \/ MainOpenModemC
    \/ MainModemOk
    \/ MainModemConnect
    \/ MainModemDhcpStatus
    \/ MainUpdateInterfaceIpAddress
    \/ MainSetGateway
    \/ MainAddDns
    \/ MainOpenModemD
    \/ MainModemHangup
    \/ MainEraseInterfaceIpAddress
    \/ MainRemoveGateway
    \/ MainRmDns
    \/ MainPrintHelp
    \/ MainExit

Spec == Init /\ [][Next]_vars

----------------------------------------------------------------------------
(* DhcpParse on its own: the parser applied to texts built from a label,  *)
(* a colon or none, and a list of fields                                   *)

MaxFields == 9

LabelPool == {<<>>, DhcpLabel, <<"a", ":", "b">>, <<"a", ",", "b">>}

\* addresses, as their four octets a.b.c.d
AddrPool ==
    { <<10, 0, 0, 1>>, <<10, 0, 0, 2>>, <<8, 8, 8, 8>>, <<8, 4, 4, 4>>,
      <<255, 255, 255, 0>>, <<255, 0, 255, 0>>, <<192, 168, 8, 100>>,
      <<0, 0, 0, 0>> }

\* an octet as two hexadecimal digits
Hex2(n) == <<DigitCharsUpper[(n \div 16) + 1], DigitCharsUpper[(n % 16) + 1]>>

\* the address a.b.c.d as the modem writes it: the octets d, c, b, a in hexadecimal
HexWord(o) == Hex2(o[4]) \o Hex2(o[3]) \o Hex2(o[2]) \o Hex2(o[1])

FieldPool ==
    {HexWord(o) : o \in AddrPool} \cup
    { HexAddr,
      HexBad,
      <<>>,
      <<"1", "0", "0", "0", "0", "0", "0", "0", "0">>,
      <<"F", "F", "F", "F", "F", "F", "F", "F">>,
      <<"-", "1">>,
      <<"-", "0">>,
      <<"0", "x", "1", "0">>,
      <<" ", "1", "f", " ">>,
      <<"1", "_", "0">> }

TxPool ==
    { Rate,
      Rate \o CrLf \o CrLf \o OkToken \o CrLf,
      <<>>,
      <<" ", "\t">>,
      <<"2", "0", ":", "0", "0">> }

\* the first n fields of a lease line whose k-th field is f and whose eighth is tx
FieldList(n, k, f, tx) ==
    LET all == [i \in 1..n |->
                   IF i = k THEN f
                   ELSE IF i = 8 THEN tx
                   ELSE IF i <= 8 THEN LeaseFields[i]
                   ELSE Rate]
    IN  all

ParseInputs ==
    { label \o (IF colon THEN <<":">> ELSE <<>>) \o Join(FieldList(n, k, f, tx), ",") :
        label \in LabelPool, colon \in BOOLEAN, n \in 0..MaxFields, k \in 1..6,
        f \in FieldPool, tx \in TxPool }

InitParse ==
    /\ pc = "DhcpParse"
    /\ dhcp \in ParseInputs
    /\ args = [connect |-> FALSE, disconnect |-> FALSE]
    /\ ser = Unbound
    /\ sessions = <<>>
    /\ io = <<>>
    /\ ok = "unbound"
    /\ status = [bound |-> FALSE, isNone |-> TRUE, dict |-> NoDict]
    /\ iface = [present |-> FALSE, addr |-> NoneText, netmask |-> NoneText]
    /\ route = [present |-> FALSE, gw |-> <<>>]
    /\ resolv = [present |-> FALSE, dns |-> <<>>]
    /\ calls = <<>>
    /\ exc = "none"
    /\ exitStatus = -1

\* one call of DhcpParse(dhcp): its result, or the exception it raises
CallDhcpParse ==
    /\ pc = "DhcpParse"
    /\ LET r == DhcpParse(dhcp)
       IN  /\ status' = [bound |-> r.exc = "none", isNone |-> r.isNone, dict |-> r.dict]
           /\ exc' = r.exc
           /\ pc' = IF r.exc = "none" THEN "DhcpParse returned" ELSE "DhcpParse raised"
    /\ UNCHANGED <<args, ser, sessions, io, ok, dhcp, iface, route, resolv, calls,
                   exitStatus>>

NextParse == CallDhcpParse

SpecParse == InitParse /\ [][NextParse]_vars

----------------------------------------------------------------------------
(* Properties *)

Terminated == pc \in {"exited", "raised"}

WriteAt(i, cmd) == io[i].op = "write" /\ io[i].data = cmd

Written(cmd) == \E i \in 1..Len(io) : WriteAt(i, cmd)

Called(name) ==
    \E k \in 1..Len(calls) : calls[k].kind = "call" /\ calls[k].name = name

\* the reads that answer the write at position i: those up to the next write
ReadsAfter(i) ==
    {j \in (i + 1)..Len(io) :
        \A k \in (i + 1)..j : io[k].op = "read"}

\* the hangup command has been written and every read that answered it is text
HangupAnsweredInText ==
    \E i \in 1..Len(io) :
        /\ WriteAt(i, AtHangup)
        /\ \A j \in ReadsAfter(i) : Decodable(io[j].data)

\* the gateway step of the teardown ran, and it issued the removal of the
\* default gateway if the interface still has one
GatewayStepRan ==
    \E k \in 1..Len(calls) :
        /\ calls[k] = Call("GetGatewayInfo", <<Dev>>)
        /\ route.present =>
              /\ k < Len(calls)
              /\ calls[k + 1].name = "/sbin/route delete default gw"

\* C1: whatever the hangup exchange returned (OK, ERROR, neither and then a
\* delayed read with or without OK, or nothing at all), once the process has
\* ended the three teardown steps have been invoked: EraseInterfaceIpAddress,
\* the removal of the interface's default gateway where there is one, RmDns.
C1_TeardownAfterEveryHangupOutcome ==
    (Terminated /\ HangupAnsweredInText) =>
        /\ Called("EraseInterfaceIpAddress")
        /\ GatewayStepRan
        /\ Called("RmDns")

\* the answer read to the connect command lacks OK
ConnectAnswerLacksOk ==
    \E i \in 1..(Len(io) - 1) :
        WriteAt(i, AtConnect) /\ ~Contains(io[i + 1].data, OkToken)

\* ModemDhcpStatus has returned and yielded no lease
NoLeaseYielded == status.bound /\ status.isNone

\* C2: in a run in which ModemConnect failed (its answer lacks OK) or
\* ModemDhcpStatus yielded no lease, none of UpdateInterfaceIpAddress,
\* SetGateway and AddDns is ever invoked.
C2_NoMutationAfterFailedConnect ==
    (ConnectAnswerLacksOk \/ NoLeaseYielded) =>
        /\ ~Called("UpdateInterfaceIpAddress")
        /\ ~Called("SetGateway")
        /\ ~Called("AddDns")

\* the first read of the hangup written at i has neither OK nor ERROR
HangupPendingAt(i) ==
    /\ i < Len(io)
    /\ WriteAt(i, AtHangup)
    /\ ~Contains(io[i + 1].data, OkToken)
    /\ ~Contains(io[i + 1].data, ErrorToken)

\* C3: when the first read of ModemHangup holds neither OK nor ERROR (text
\* without them, or no text), ModemHangup reads once more and returns True
\* exactly if that delayed read holds OK.
C3_HangupDelayedCompletion ==
    \A i \in 1..Len(io) :
        (HangupPendingAt(i) /\ Decodable(io[i + 1].data)
            /\ (Len(io) >= i + 2 => Decodable(io[i + 2].data))) =>
            /\ exc = "none"
            /\ Len(io) = i + 2
            /\ io[i + 2].op = "read"
            /\ ok = BoolStr(Contains(io[i + 2].data, OkToken))

\* the first read of the hangup written at i has ERROR and no OK
HangupRejectedAt(i) ==
    /\ i < Len(io)
    /\ WriteAt(i, AtHangup)
    /\ Contains(io[i + 1].data, ErrorToken)
    /\ ~Contains(io[i + 1].data, OkToken)

\* C4: when the first read of ModemHangup holds ERROR and no OK, ModemHangup
\* returns False and no second read is issued: the first read is the last
\* thing that happens on the session.
C4_HangupRejected ==
    \A i \in 1..Len(io) :
        HangupRejectedAt(i) =>
            /\ Len(io) = i + 1
            /\ ok = "False"
            /\ exc = "none"

C4_Witness ==
    /\ pc = "exited"
    /\ \E i \in 1..Len(io) : HangupRejectedAt(i)

\* every one of the nine entries of the dictionary holds a value
Populated(d) ==
    /\ \A f \in {"IpAddr", "Netmask", "Gateway", "DhcpServer", "DnsPrimary",
                 "DnsSecondary", "RxMaxBps", "TxMaxBps"} : d[f] # <<>>
    /\ d.NetmaskBits \in 0..32

\* C5: DhcpParse is total: on every text it returns None or a dictionary with
\* all nine entries, and it never raises.
C5_DhcpParseTotal ==
    pc # "DhcpParse" =>
        /\ exc = "none"
        /\ status.isNone \/ Populated(status.dict)

\* C6: a read that times out with no byte, as the answer to the probe, the
\* connect command, the hangup command or the DHCP query, is turned into a
\* result for the caller; the process does not abort.
C6_EmptyReadRecovered ==
    (\E i \in 2..Len(io) :
        io[i].op = "read" /\ io[i].data = <<>> /\ io[i - 1].op = "write")
    => exc = "none"

\* C7: when the process ends by exit(0), every serial session it opened has
\* been closed.
C7_SessionsClosedAtExit ==
    pc = "exited" => \A i \in 1..Len(sessions) : ~sessions[i].open

\* C8: the process ends with exit status 0 in every run.
C8_ExitStatusZero ==
    Terminated => exitStatus = 0

\* C9: whatever the probe read (text with OK, text without OK, nothing), the
\* connect command is written next.
C9_ProbeNeverGates ==
    (\E i \in 1..(Len(io) - 1) :
        WriteAt(i, AtProbe) /\ Decodable(io[i + 1].data))
    => (pc = "ModemConnect" \/ Written(AtConnect))

\* C10: no command is resent.  Each of the four AT commands is written at
\* most once and nothing else is written; every write is answered by one
\* read, and the only further read is the one delayed read of the hangup,
\* which follows its first read with no write in between.
C10_NoCommandResent ==
    /\ \A i \in 1..Len(io) :
          io[i].op = "write" =>
              /\ io[i].data \in {AtProbe, AtConnect, AtDhcp, AtHangup}
              /\ \A j \in 1..Len(io) : WriteAt(j, io[i].data) => j = i
              /\ i < Len(io) /\ io[i + 1].op = "read"
    /\ \A j \in 1..Len(io) :
          io[j].op = "read" =>
              \/ j > 1 /\ io[j - 1].op = "write"
              \/ /\ j > 2
                 /\ io[j - 1].op = "read"
                 /\ WriteAt(j - 2, AtHangup)
                 /\ io[j].size = ModemHangupDelayedRead

C10_Witness ==
    /\ pc = "exited"
    /\ Written(AtProbe) /\ Written(AtConnect) /\ Written(AtDhcp)
    /\ \E i \in 1..(Len(io) - 2) :
          WriteAt(i, AtHangup) /\ io[i + 1].op = "read" /\ io[i + 2].op = "read"

\* the number of commands named `name` issued so far
Issued(name) ==
    Cardinality({k \in 1..Len(calls) : calls[k].kind = "cmd" /\ calls[k].name = name})

\* the interface already has the lease's address and netmask
InterfaceMatchesLease ==
    /\ iface.addr = SomeText(status.dict.IpAddr)
    /\ iface.netmask = SomeText(status.dict.Netmask)

\* C11: in the connect flow, with a lease and the interface present, the
\* address is set (one flush, then one `ip address add` of the lease's address
\* and bit count) when the interface's address or netmask differs from the
\* lease's, and nothing is issued when both equal the lease's; over the whole
\* run the address is added at most once.
C11_AddressSetOnceWhenDiffers ==
    /\ [](Issued("/sbin/ip address add") <= 1)
    /\ [][(pc = "UpdateInterfaceIpAddress" /\ iface.present) =>
            IF InterfaceMatchesLease
            THEN calls' = calls \o <<Call("UpdateInterfaceIpAddress", <<Dev>>)>>
            ELSE calls' = calls \o
                    <<Call("UpdateInterfaceIpAddress", <<Dev>>),
                      Cmd("/sbin/ip addr flush dev", <<Dev>>),
                      Cmd("/sbin/ip address add",
                          <<status.dict.IpAddr \o <<"/">>
                                \o DecStr(status.dict.NetmaskBits), Dev>>)>>]_vars

C11_Witness ==
    /\ pc = "SetGateway"
    /\ Len(calls) = 3
    /\ calls[2].name = "/sbin/ip addr flush dev"
    /\ calls[3] = Cmd("/sbin/ip address add",
                      <<LeaseAddr \o <<"/", "2", "4">>, Dev>>)
    /\ iface.addr = SomeText(LeaseAddr)
    /\ iface.netmask = SomeText(LeaseMask)

\* DhcpParse has returned a dictionary
ParsedLease == pc = "DhcpParse returned" /\ ~status.isNone

\* the number of one bits among the eight bits of n
SetBits(n) == Cardinality({b \in 0..7 : (n \div (2 ^ b)) % 2 = 1})

\* the value an octet's decimal text stands for
OctetOf(text) == CHOOSE v \in 0..255 : DecStr(v) = text

\* the total of the set bits of the octets of a dotted-decimal netmask
SetBitsOfMask(netmask) ==
    LET parts == SplitAll(netmask, ".")
    IN  SetBits(OctetOf(parts[1])) + SetBits(OctetOf(parts[2]))
            + SetBits(OctetOf(parts[3])) + SetBits(OctetOf(parts[4]))

Mask24 == InetNtoa(<<255, 255, 255, 0>>)
MaskSplit == InetNtoa(<<255, 0, 255, 0>>)

\* C12: NetmaskBits is the total number of set bits of the four octets of the
\* decoded netmask: 24 for 255.255.255.0, 16 for 255.0.255.0 (not the length
\* of its leading run of ones, 8), and always within 0..32.
C12_NetmaskBitsIsPopulationCount ==
    ParsedLease =>
        /\ status.dict.NetmaskBits = SetBitsOfMask(status.dict.Netmask)
        /\ status.dict.NetmaskBits \in 0..32
        /\ status.dict.Netmask = Mask24 => status.dict.NetmaskBits = 24
        /\ status.dict.Netmask = MaskSplit => status.dict.NetmaskBits = 16

C12_Witness ==
    /\ ParsedLease
    /\ status.dict.Netmask = MaskSplit
    /\ status.dict.NetmaskBits = 16

\* the entries of the dictionary that hold addresses, in the order of the fields
AddressKeys ==
    <<"IpAddr", "Netmask", "Gateway", "DhcpServer", "DnsPrimary", "DnsSecondary">>

\* the k-th field of the text after its first colon
FieldOf(text, k) == SplitAll(SplitFirst(text, ":")[2], ",")[k]

\* C13: an address a.b.c.d written as its little-endian hexadecimal word
\* (octets d, c, b, a) in any of the first six fields is decoded to a.b.c.d,
\* and the k-th field lands in the k-th of address, netmask, gateway, DHCP
\* server, primary DNS, secondary DNS.
C13_AddressRoundTrip ==
    ParsedLease =>
        \A k \in 1..6 : \A o \in AddrPool :
            FieldOf(dhcp, k) = HexWord(o) =>
                status.dict[AddressKeys[k]] = InetNtoa(o)

C13_Witness ==
    /\ ParsedLease
    /\ \A k \in 1..6 : \E o \in AddrPool : FieldOf(dhcp, k) = HexWord(o)
    /\ FieldOf(dhcp, 5) = HexWord(<<192, 168, 8, 100>>)
    /\ status.dict.DnsPrimary = InetNtoa(<<192, 168, 8, 100>>)

\* C14: the DHCP query is written only in runs in which the answer to the
\* connect command held OK.
C14_DhcpQueryOnlyAfterConnect ==
    Written(AtDhcp) =>
        \E i \in 1..(Len(io) - 1) :
            WriteAt(i, AtConnect) /\ Contains(io[i + 1].data, OkToken)

\* C15: when OpenModem returned None the process does not abort, nothing is
\* written while there is no session, and a disconnect flow still calls its
\* teardown steps.
C15_OpenFailureRecovered ==
    /\ (ser = NoneSer /\ sessions = <<>>) => io = <<>>
    /\ (ser = NoneSer /\ Terminated) =>
          /\ exc = "none"
          /\ args.disconnect =>
                /\ Called("EraseInterfaceIpAddress")
                /\ GatewayStepRan
                /\ Called("RmDns")

\* C16: the step of ModemDhcpStatus, on an answer that is text: without OK it
\* returns None and hands nothing to the parser; with OK the parser gets the
\* answer and the step ends as DhcpParse of the answer ends.
C16_DhcpStatusIsParseOfOkAnswer ==
    [][pc = "ModemDhcpStatus" =>
        LET answer == io'[Len(io')].data
            r == DhcpParse(answer)
        IN  Decodable(answer) =>
                IF ~Contains(answer, OkToken)
                THEN /\ exc' = "none"
                     /\ status'.bound /\ status'.isNone
                     /\ dhcp' = dhcp
                ELSE /\ dhcp' = answer
                     /\ exc' = r.exc
                     /\ r.exc = "none" =>
                           status' = [bound |-> TRUE, isNone |-> r.isNone,
                                      dict |-> r.dict]]_vars

\* the positions of the colons and of the commas after the first colon
Colons(text) == {i \in 1..Len(text) : text[i] = ":"}
FirstColon(text) == CHOOSE i \in Colons(text) : \A j \in Colons(text) : i <= j
FieldsAfterFirstColon(text) ==
    1 + Cardinality({i \in (FirstColon(text) + 1)..Len(text) : text[i] = ","})

\* DhcpParse returned None
ParsedNone == pc = "DhcpParse returned" /\ exc = "none" /\ status.isNone

\* C17: DhcpParse returns None, and does not raise, on a text without colon
\* and on a text with fewer than 8 comma-separated fields after its first
\* colon; with 8 or more fields after the first colon it goes on to decode
\* them, whatever colons and commas stand elsewhere.
C17_NoLeaseOnMissingFields ==
    pc # "DhcpParse" =>
        IF Colons(dhcp) = {} \/ FieldsAfterFirstColon(dhcp) < 8
        THEN ParsedNone
        ELSE ~ParsedNone

C17_Witness ==
    /\ ParsedNone
    /\ Cardinality(Colons(dhcp)) = 2
    /\ FieldsAfterFirstColon(dhcp) = 7

OpenSessions == {i \in 1..Len(sessions) : sessions[i].open}

\* C19: at most one serial session is open at any time, and none is open
\* when the disconnect flow is about to open its own.
C19_AtMostOneSessionOpen ==
    /\ Cardinality(OpenSessions) <= 1
    /\ pc = "OpenModemD" => OpenSessions = {}

\* the read at position j is the delayed read of the hangup
DelayedReadAt(j) == j > 2 /\ io[j - 1].op = "read" /\ WriteAt(j - 2, AtHangup)

\* C20: every step of ModemHangup that returns leaves the session's timeout as
\* it was; the 20 s timeout is in force for the delayed read of the hangup and
\* for no other read.
C20_HangupKeepsTimeout ==
    /\ [](\A j \in 1..Len(io) :
            io[j].op = "read" =>
                io[j].timeout = IF DelayedReadAt(j) THEN HangupTimeout ELSE OpenTimeout)
    /\ [][(pc = "ModemHangup" /\ pc' = "EraseInterfaceIpAddress") =>
            sessions'[ser.id].timeout = sessions[ser.id].timeout]_vars

C20_Witness ==
    /\ pc = "exited"
    /\ DelayedReadAt(Len(io))
    /\ io[Len(io)].timeout = HangupTimeout
    /\ sessions[ser.id].timeout = OpenTimeout
    /\ ok = "True"

====
